---- MODULE Spec2Model ----
(***************************************************************************)
(* Model of ofxpostern.py: the probe-cache-report pipeline of one run of   *)
(* main(), run repeatedly against a file system that outlives the process. *)
(*                                                                         *)
(* Paths, URLs, identifiers and response bodies are sequences of           *)
(* one-character strings, so that partition, slicing and replace act on    *)
(* characters as they do in the source.  Report lines are strings.         *)
(***************************************************************************)
EXTENDS Integers, Sequences, FiniteSets, TLC

(***************************************************************************)
(* Bounds of the model.                                                    *)
(***************************************************************************)
MaxSessions == 2   \* processes started one after another on the same disk
MaxUrlLen == 3     \* characters of a URL after its (optional) scheme
MaxIdLen == 2      \* characters of a fid / org value

(***************************************************************************)
(* Character-level helpers (Python str operations).                        *)
(***************************************************************************)
Range(s) == { s[i] : i \in 1..Len(s) }

\* str.replace(old, new) for one-character old and new
Replace(s, old, new) == [ i \in 1..Len(s) |-> IF s[i] = old THEN new ELSE s[i] ]

\* str.partition(sep)[2]: what follows the first sep, '' when sep is absent
PartitionTail(s, sep) ==
    IF sep \in Range(s)
    THEN LET i == CHOOSE j \in 1..Len(s) :
                      s[j] = sep /\ \A k \in 1..(j - 1) : s[k] # sep
         IN SubSeq(s, i + 1, Len(s))
    ELSE << >>

\* s[1:]
DropFirst(s) == SubSeq(s, 2, Len(s))

\* all sequences over alphabet A of length at most n
StrOver(A, n) == UNION { [1..k -> A] : k \in 0..n }

(***************************************************************************)
(* Defines (module level).                                                 *)
(***************************************************************************)
HOME == << "~" >>     \* os.environ['HOME'], one path component
PROGRAM_NAME == << "o", "f", "x", "p", "o", "s", "t", "e", "r", "n" >>
DATA_DIR == HOME \o << "/", "." >> \o PROGRAM_NAME
FIS_DIR == DATA_DIR \o << "/" >> \o << "f", "i" >>
FI_DIR_FMT(a, b, c) == FIS_DIR \o << "/" >> \o a \o << "-" >> \o b \o << "-" >> \o c
STR_HEADERS == << "h", "e", "a", "d", "e", "r", "s" >>
STR_BODY == << "b", "o", "d", "y" >>

\* testofx.REQ_NAME_OFX_PROFILE: the one request name the module uses.  Its
\* text lives in testofx; a name with a space and a slash exercises the
\* normalisation of send_profile_req.
REQ_NAME_OFX_PROFILE == << "O", "F", "X", " ", "P", "/", "R" >>

(***************************************************************************)
(* init(): the identity derivation, lines 116-118.                         *)
(***************************************************************************)
UrlFname(ofxurl) ==
    Replace(Replace(DropFirst(PartitionTail(ofxurl, "/")), "/", "_"), "&", "+")

FiDirOf(srv) == FI_DIR_FMT(UrlFname(srv.ofxurl), srv.fid, srv.org)

\* the last path component the format string is meant to produce
FiDirSegment(dir) == SubSeq(dir, Len(FIS_DIR) + 2, Len(dir))

(***************************************************************************)
(* The file system: os.makedirs(p, exist_ok=True) and open(p, 'w').        *)
(***************************************************************************)
\* p and every ancestor of p that a '/' inside p separates
Ancestors(p) ==
    { SubSeq(p, 1, i - 1) : i \in { j \in 2..Len(p) : p[j] = "/" /\ p[j - 1] # "/" } }
        \cup { p }

Makedirs(ds, p) == ds \cup Ancestors(p)

os_linesep == << "\n" >>     \* POSIX, the platform of HOME and mode 0o770

RECURSIVE TextEncode(_)
\* what a text-mode file holds after fd.write(s): '\n' becomes os.linesep
TextEncode(s) ==
    IF s = << >> THEN << >>
    ELSE (IF Head(s) = "\n" THEN os_linesep ELSE << Head(s) >>) \o TextEncode(Tail(s))

(***************************************************************************)
(* String helpers (str.format, str * int, json.dumps).                     *)
(***************************************************************************)
RECURSIVE Cat(_)
\* the string a sequence of characters spells
Cat(s) == IF s = << >> THEN "" ELSE Head(s) \o Cat(Tail(s))

RECURSIVE Repeat(_, _)
\* c * n
Repeat(c, n) == IF n <= 0 THEN "" ELSE c \o Repeat(c, n - 1)

\* '{:{}}'.format(s, width): left-aligned, padded with spaces, never cut
PadRight(s, width) == s \o Repeat(" ", width - Len(s))

\* dict(pairs): one entry per key, placed where the key first occurs and
\* holding the value of its last occurrence
FirstOccurrences(h) ==
    SelectSeq([ i \in 1..Len(h) |-> i ],
              LAMBDA i : \A j \in 1..(i - 1) : h[j][1] # h[i][1])

Dict(h) ==
    [ n \in 1..Len(FirstOccurrences(h)) |->
        LET k == h[FirstOccurrences(h)[n]][1]
            last == CHOOSE j \in 1..Len(h) :
                        h[j][1] = k /\ \A m \in (j + 1)..Len(h) : h[m][1] # k
        IN << k, h[last][2] >> ]

RECURSIVE JsonItems(_)
JsonItems(d) ==
    IF d = << >> THEN ""
    ELSE "\"" \o d[1][1] \o "\": \"" \o d[1][2] \o "\""
         \o (IF Len(d) > 1 THEN ", " ELSE "") \o JsonItems(Tail(d))

\* json.dumps of a str -> str mapping whose keys and values need no escape
JsonDumps(d) == "{" \o JsonItems(d) \o "}"

(***************************************************************************)
(* Inputs: servers, adapter responses, parsed responses, clock readings.   *)
(***************************************************************************)
Scheme == << "s", ":", "/", "/" >>

\* every OFXServerInstance the derivation is examined on
AllServers ==
    [ ofxurl : { pre \o rest : pre \in { << >>, Scheme },
                               rest \in StrOver({ "h", "/", "&" }, MaxUrlLen) },
      fid : StrOver({ "a", "-", "/" }, MaxIdLen),
      org : StrOver({ "a", "-", "/" }, MaxIdLen) ]

\* the servers the sessions are run against
Servers ==
    { [ ofxurl |-> Scheme \o << "h", "/", "h" >>, fid |-> << "a" >>, org |-> << >> ],
      [ ofxurl |-> Scheme \o << "h", "/", "h" >>, fid |-> << "a" >>, org |-> << "a" >> ] }

\* what send_req may return: headers as key/value pairs, text as characters
Responses ==
    { [ headers |-> << << "Server", "nginx" >>, << "Content-Type", "application/x-ofx" >> >>,
        text |-> << "O", "F", "X", "\n" >> ],
      [ headers |-> << << "Server", "a" >>, << "Date", "d" >>, << "Server", "b" >> >>,
        text |-> << "<", "\r", "\n", ">" >> ] }

SignonKeys == { "FID", "ORG" }
ProfileKeys == { "FINAME", "ADDR1", "ADDR2", "ADDR3", "CITY", "STATE",
                 "POSTALCODE", "COUNTRY", "OFXURL" }
FieldValue(k) ==
    CASE k = "FID" -> "1001" [] k = "ORG" -> "ACME" [] k = "FINAME" -> "Acme Bank"
      [] k = "ADDR1" -> "1 Main St" [] k = "ADDR2" -> "Suite 2" [] k = "ADDR3" -> "Floor 3"
      [] k = "CITY" -> "Springfield" [] k = "STATE" -> "NY" [] k = "POSTALCODE" -> "12345"
      [] k = "COUNTRY" -> "USA" [] k = "OFXURL" -> "https://ofx.example.com"

\* mappings with any subset of keys present; the keys in canBeEmpty may be
\* present with the empty string
Mappings(keys, canBeEmpty) ==
    { [ k \in D |-> IF k \in E THEN "" ELSE FieldValue(k) ] :
        << D, E >> \in { de \in (SUBSET keys) \X (SUBSET canBeEmpty) : de[2] \subseteq de[1] } }

\* every OFXFile the renderer is examined on
ProfileResponses ==
    [ signon : Mappings(SignonKeys, SignonKeys), profile : Mappings(ProfileKeys, { "OFXURL" }) ]

\* the OFXFile objects the sessions see
ProfileSamples ==
    { r \in ProfileResponses :
        /\ DOMAIN r.signon \in { { }, { "FID" }, SignonKeys }
        /\ DOMAIN r.profile \in { { }, { "FINAME" }, { "FINAME", "STATE", "OFXURL" }, ProfileKeys }
        /\ \A k \in DOMAIN r.signon : r.signon[k] # ""
        /\ \A k \in DOMAIN r.profile : r.profile[k] # "" }

Times == { "Mon Nov  2 02:00:00 2026", "Mon Nov  2 02:00:01 2026" }   \* time.asctime()

VERSION == "0.0.1"
PROG == "ofxpostern.py"     \* parser.prog

(***************************************************************************)
(* print_header, print_kv_list and the two report blocks.                  *)
(***************************************************************************)
UnderChar(lvl) == CASE lvl = 1 -> "#" [] lvl = 2 -> "=" [] lvl = 3 -> "-"

\* the lines print_header(msg, lvl) prints
PrintHeader(msg, lvl) == << msg, Repeat(UnderChar(lvl), Len(msg)) >>

KWidth(kv_list) ==
    IF kv_list = << >> THEN 0
    ELSE CHOOSE w \in { Len(kv_list[i][1]) : i \in 1..Len(kv_list) } :
            \A i \in 1..Len(kv_list) : Len(kv_list[i][1]) <= w

\* the lines print_kv_list(kv_list) prints
PrintKvList(kv_list) ==
    [ i \in 1..Len(kv_list) |->
        PadRight(kv_list[i][1] \o ":", KWidth(kv_list) + 1) \o " " \o kv_list[i][2] ]

\* the (key, label) table of report_cli_fi
FiOutput == << << "FINAME", "Name" >>, << "ADDR1", "Address" >>,
               << "ADDR2", "" >>, << "ADDR3", "" >> >>

\* Mutant of FiLabelled: a key that is absent is listed with a blank value
FiLabelledBlank(profile) ==
    [ i \in 1..Len(FiOutput) |->
        << FiOutput[i][2],
           IF FiOutput[i][1] \in DOMAIN profile THEN profile[FiOutput[i][1]] ELSE "" >> ]

\* the labelled entries: one per key of the table found in the mapping
FiLabelled(profile) ==
    LET found == SelectSeq(FiOutput, LAMBDA tup : tup[1] \in DOMAIN profile)
    IN [ i \in 1..Len(found) |-> << found[i][2], profile[found[i][1]] >> ]

\* the three lookups sit in ONE try block: the first KeyError leaves the
\* later variables at ''
FiCity(profile) == IF "CITY" \in DOMAIN profile THEN profile["CITY"] ELSE ""
FiState(profile) ==
    IF { "CITY", "STATE" } \subseteq DOMAIN profile THEN profile["STATE"] ELSE ""
FiPostalcode(profile) ==
    IF { "CITY", "STATE", "POSTALCODE" } \subseteq DOMAIN profile
    THEN profile["POSTALCODE"] ELSE ""
FiCountry(profile) == IF "COUNTRY" \in DOMAIN profile THEN profile["COUNTRY"] ELSE ""

\* '{}, {} {}'.format(city, state, postalcode)
CityLine(city, state, postalcode) == city \o ", " \o state \o " " \o postalcode

\* fi_list of report_cli_fi
FiList(p) ==
    FiLabelled(p.profile)
        \o << << "", CityLine(FiCity(p.profile), FiState(p.profile), FiPostalcode(p.profile)) >> >>
        \o << << "", FiCountry(p.profile) >> >>

\* Mutant of ServerList: the lookups test the value's truth, so a key that
\* is present with '' is skipped like an absent one
ServerListTruthy(p) ==
    LET has(m, k) == k \in DOMAIN m /\ m[k] # ""
    IN (IF has(p.signon, "FID") THEN << << "FID", p.signon["FID"] >> >> ELSE << >>)
        \o (IF has(p.signon, "ORG") THEN << << "ORG", p.signon["ORG"] >> >> ELSE << >>)
        \o (IF has(p.profile, "OFXURL") THEN << << "URL", p.profile["OFXURL"] >> >> ELSE << >>)

\* fi_list of report_cli_server
ServerList(p) ==
    (IF "FID" \in DOMAIN p.signon THEN << << "FID", p.signon["FID"] >> >> ELSE << >>)
        \o (IF "ORG" \in DOMAIN p.signon THEN << << "ORG", p.signon["ORG"] >> >> ELSE << >>)
        \o (IF "OFXURL" \in DOMAIN p.profile THEN << << "URL", p.profile["OFXURL"] >> >> ELSE << >>)

(***************************************************************************)
(* send_profile_req: the cache file names and the write.                   *)
(***************************************************************************)
ResNameBase(req_name) == Replace(Replace(req_name, "/", "+"), " ", "_")

\* '{}/{}-{}'.format(fi_dir, res_name_base, suffix)
CachePath(dir, req_name, suffix) ==
    dir \o << "/" >> \o ResNameBase(req_name) \o << "-" >> \o suffix

\* Mutant of WriteFile: the file is opened for append instead of write
AppendFile(fs, path, content) ==
    (path :> (IF path \in DOMAIN fs THEN fs[path] \o content ELSE content)) @@ fs

\* with open(path, 'w') as fd: fd.write(content): the file now holds content
WriteFile(fs, path, content) == (path :> content) @@ fs

\* fd.write(json.dumps(dict(res.headers)))
HeadersContent(r) == JsonDumps(Dict(r.headers))

\* fd.write(res.text)
BodyContent(r) == TextEncode(r.text)

(***************************************************************************)
(* State.                                                                  *)
(***************************************************************************)
VARIABLES
    pc,           \* where main() stands
    session,      \* which process this is (1 is the first)
    server,       \* OFXServerInstance: << >> before it is built, else << srv >>
    fi_dir,       \* global fi_dir
    req_results,  \* global req_results: request name -> response
    res,          \* res of send_profile_req: << >> before it is bound, else << r >>
    profrs,       \* profrs of main: << >> before it is bound, else << p >>
    fi_list,      \* fi_list of the report block that ran last
    stdout,       \* the lines printed by this process
    sent,         \* the request names this process handed to send_req
    exc,          \* the exception that ended this process, "" when none
    dirs,         \* the directories on disk
    files,        \* the files on disk: path -> content
    files0        \* the files on disk when this process started

vars == << pc, session, server, fi_dir, req_results, res, profrs, fi_list,
           stdout, sent, exc, dirs, files, files0 >>

\* module globals of a fresh interpreter, nothing on disk
Init ==
    /\ pc = "main"
    /\ session = 1
    /\ server = << >>
    /\ fi_dir = << >>
    /\ req_results = << >>
    /\ res = << >>
    /\ profrs = << >>
    /\ fi_list = << >>
    /\ stdout = << >>
    /\ sent = << >>
    /\ exc = ""
    /\ dirs = { }
    /\ files = << >>
    /\ files0 = << >>

(***************************************************************************)
(* main(), step by step.                                                   *)
(***************************************************************************)
DebugLine(srv) ==
    "DEBUG: Namespace(url='" \o Cat(srv.ofxurl) \o "', fid='" \o Cat(srv.fid)
        \o "', org='" \o Cat(srv.org) \o "')"

\* parse_args, print_debug(args), OFXServerInstance(...)
ParseArgs(S) ==
    /\ pc = "main"
    /\ \E srv \in S :
        /\ server' = << srv >>
        /\ stdout' = Append(stdout, DebugLine(srv))
    /\ pc' = "init"
    /\ UNCHANGED << session, fi_dir, req_results, res, profrs, fi_list, sent, exc,
                    dirs, files, files0 >>

MainParse == ParseArgs(Servers)

\* init(server), all three makedirs succeed
InitOk ==
    /\ pc = "init"
    /\ fi_dir' = FiDirOf(server[1])
    /\ dirs' = Makedirs(Makedirs(Makedirs(dirs, DATA_DIR), FIS_DIR), fi_dir')
    /\ pc' = "banner"
    /\ UNCHANGED << session, server, req_results, res, profrs, fi_list, stdout, sent,
                    exc, files, files0 >>

\* Mutant of InitFail: the OSError is caught and main() goes on
InitFailIgnored(k) ==
    /\ pc = "init"
    /\ fi_dir' = FiDirOf(server[1])
    /\ dirs' = IF k = 1 THEN dirs
               ELSE IF k = 2 THEN Makedirs(dirs, DATA_DIR)
               ELSE Makedirs(Makedirs(dirs, DATA_DIR), FIS_DIR)
    /\ exc' = "OSError: makedirs"
    /\ pc' = "banner"
    /\ UNCHANGED << session, server, req_results, res, profrs, fi_list, stdout, sent,
                    files, files0 >>

\* init(server), the k-th makedirs raises OSError: the earlier ones are done
InitFail(k) ==
    /\ pc = "init"
    /\ fi_dir' = FiDirOf(server[1])
    /\ dirs' = IF k = 1 THEN dirs
               ELSE IF k = 2 THEN Makedirs(dirs, DATA_DIR)
               ELSE Makedirs(Makedirs(dirs, DATA_DIR), FIS_DIR)
    /\ exc' = "OSError: makedirs"
    /\ pc' = "aborted"
    /\ UNCHANGED << session, server, req_results, res, profrs, fi_list, stdout, sent,
                    files, files0 >>

StartLine(t) == "Start: " \o t
EndLine(t) == "End:   " \o t

\* the banner, 'Start: ...' and '  Sending <PROFRQ>'
PrintStart ==
    /\ pc = "banner"
    /\ \E t \in Times :
        stdout' = stdout \o << PROG \o ": version " \o VERSION, "", StartLine(t),
                               "  Sending <PROFRQ>" >>
    /\ pc' = "send"
    /\ UNCHANGED << session, server, fi_dir, req_results, res, profrs, fi_list, sent,
                    exc, dirs, files, files0 >>

\* Mutant of SendReqOk: the response is put into req_results at once, before
\* the cache files are written
SendReqOkStoresFirst ==
    /\ pc = "send"
    /\ sent' = Append(sent, REQ_NAME_OFX_PROFILE)
    /\ \E r \in Responses :
        /\ res' = << r >>
        /\ req_results' = (REQ_NAME_OFX_PROFILE :> r) @@ req_results
    /\ pc' = "write_headers"
    /\ UNCHANGED << session, server, fi_dir, profrs, fi_list, stdout, exc,
                    dirs, files, files0 >>

\* res = otc.send_req(req_name, server) returns
SendReqOk ==
    /\ pc = "send"
    /\ sent' = Append(sent, REQ_NAME_OFX_PROFILE)
    /\ \E r \in Responses : res' = << r >>
    /\ pc' = "write_headers"
    /\ UNCHANGED << session, server, fi_dir, req_results, profrs, fi_list, stdout, exc,
                    dirs, files, files0 >>

\* Mutant of SendReqRaise: the error is caught and an empty response stands
\* in for the missing one
SendReqRaiseSwallowed ==
    /\ pc = "send"
    /\ sent' = Append(sent, REQ_NAME_OFX_PROFILE)
    /\ exc' = "transport"
    /\ res' = << [ headers |-> << >>, text |-> << >> ] >>
    /\ pc' = "write_headers"
    /\ UNCHANGED << session, server, fi_dir, req_results, profrs, fi_list, stdout,
                    dirs, files, files0 >>

\* Mutant of SendReqRaise: the request is tried again after the error
SendReqRaiseRetry ==
    /\ pc = "send"
    /\ sent' = Append(sent, REQ_NAME_OFX_PROFILE)
    /\ pc' = "send"
    /\ UNCHANGED << session, server, fi_dir, req_results, res, profrs, fi_list, stdout,
                    exc, dirs, files, files0 >>

\* otc.send_req(req_name, server) raises: nothing catches it
SendReqRaise ==
    /\ pc = "send"
    /\ sent' = Append(sent, REQ_NAME_OFX_PROFILE)
    /\ exc' = "transport"
    /\ pc' = "aborted"
    /\ UNCHANGED << session, server, fi_dir, req_results, res, profrs, fi_list, stdout,
                    dirs, files, files0 >>

HeadersPath == CachePath(fi_dir, REQ_NAME_OFX_PROFILE, STR_HEADERS)
BodyPath == CachePath(fi_dir, REQ_NAME_OFX_PROFILE, STR_BODY)

\* the '-headers' file is opened and written
WriteHeaders ==
    /\ pc = "write_headers"
    /\ files' = WriteFile(files, HeadersPath, HeadersContent(res[1]))
    /\ pc' = "write_body"
    /\ UNCHANGED << session, server, fi_dir, req_results, res, profrs, fi_list, stdout,
                    sent, exc, dirs, files0 >>

\* open(..., 'w') raises OSError: the file is as it was
WriteHeadersFail ==
    /\ pc = "write_headers"
    /\ exc' = "OSError: open"
    /\ pc' = "aborted"
    /\ UNCHANGED << session, server, fi_dir, req_results, res, profrs, fi_list, stdout,
                    sent, dirs, files, files0 >>

\* the '-body' file is opened and written
WriteBody ==
    /\ pc = "write_body"
    /\ files' = WriteFile(files, BodyPath, BodyContent(res[1]))
    /\ pc' = "store"
    /\ UNCHANGED << session, server, fi_dir, req_results, res, profrs, fi_list, stdout,
                    sent, exc, dirs, files0 >>

WriteBodyFail ==
    /\ pc = "write_body"
    /\ exc' = "OSError: open"
    /\ pc' = "aborted"
    /\ UNCHANGED << session, server, fi_dir, req_results, res, profrs, fi_list, stdout,
                    sent, dirs, files, files0 >>

\* req_results[req_name] = res
StoreResult ==
    /\ pc = "store"
    /\ req_results' = (REQ_NAME_OFX_PROFILE :> res[1]) @@ req_results
    /\ pc' = "end"
    /\ UNCHANGED << session, server, fi_dir, res, profrs, fi_list, stdout, sent, exc,
                    dirs, files, files0 >>

\* 'End: ...' and the blank line after it
PrintEnd ==
    /\ pc = "end"
    /\ \E t \in Times : stdout' = stdout \o << EndLine(t), "" >>
    /\ pc' = "project"
    /\ UNCHANGED << session, server, fi_dir, req_results, res, profrs, fi_list, sent,
                    exc, dirs, files, files0 >>

\* profrs = testofx.OFXFile(req_results[...].text): the parser is outside this
\* module, so any mapping pair may come back
ProjectFrom(P) ==
    /\ pc = "project"
    /\ REQ_NAME_OFX_PROFILE \in DOMAIN req_results
    /\ \E p \in P : profrs' = << p >>
    /\ pc' = "report_fi"
    /\ UNCHANGED << session, server, fi_dir, req_results, res, fi_list, stdout, sent,
                    exc, dirs, files, files0 >>

Project == ProjectFrom(ProfileSamples)

\* the parser rejects the body
ProjectRaise ==
    /\ pc = "project"
    /\ REQ_NAME_OFX_PROFILE \in DOMAIN req_results
    /\ exc' = "parse"
    /\ pc' = "aborted"
    /\ UNCHANGED << session, server, fi_dir, req_results, res, profrs, fi_list, stdout,
                    sent, dirs, files, files0 >>

\* report_cli_fi(profrs)
ReportCliFi ==
    /\ pc = "report_fi"
    /\ fi_list' = FiList(profrs[1])
    /\ stdout' = stdout \o PrintHeader("Financial Institution", 2) \o << "" >>
                        \o PrintKvList(fi_list') \o << "" >>
    /\ pc' = "report_server"
    /\ UNCHANGED << session, server, fi_dir, req_results, res, profrs, sent, exc, dirs,
                    files, files0 >>

\* report_cli_server(profrs)
ReportCliServer ==
    /\ pc = "report_server"
    /\ fi_list' = ServerList(profrs[1])
    /\ stdout' = stdout \o PrintHeader("OFX Server", 2) \o << "" >>
                        \o PrintKvList(fi_list') \o << "" >>
    /\ pc' = "done"
    /\ UNCHANGED << session, server, fi_dir, req_results, res, profrs, sent, exc, dirs,
                    files, files0 >>

\* the process is over; the program is run again on the same disk
NewProcess ==
    /\ pc \in { "done", "aborted" }
    /\ session < MaxSessions
    /\ session' = session + 1
    /\ pc' = "main"
    /\ server' = << >>
    /\ fi_dir' = << >>
    /\ req_results' = << >>
    /\ res' = << >>
    /\ profrs' = << >>
    /\ fi_list' = << >>
    /\ stdout' = << >>
    /\ sent' = << >>
    /\ exc' = ""
    /\ files0' = files
    /\ UNCHANGED << dirs, files >>

Next ==
    \/ MainParse
    \/ InitOk
    \/ \E k \in 1..3 : InitFail(k)
    \/ PrintStart
    \/ SendReqOk
    \/ SendReqRaise
    \/ WriteHeaders
    \/ WriteHeadersFail
    \/ WriteBody
    \/ WriteBodyFail
    \/ StoreResult
    \/ PrintEnd
    \/ Project
    \/ ProjectRaise
    \/ ReportCliFi
    \/ ReportCliServer
    \/ NewProcess

Spec == Init /\ [][Next]_vars

(***************************************************************************)
(* The identity derivation on every server of AllServers: argument parsing *)
(* followed by init().                                                     *)
(***************************************************************************)
DeriveParse == ParseArgs(AllServers)

NextDerive ==
    \/ DeriveParse
    \/ InitOk
    \/ \E k \in 1..3 : InitFail(k)

SpecDerive == Init /\ [][NextDerive]_vars

(***************************************************************************)
(* The report on every parsed response of ProfileResponses: a first        *)
(* process that has printed its 'End' line, then projection and the two    *)
(* report blocks.                                                          *)
(***************************************************************************)
ReportServer == [ ofxurl |-> Scheme \o << "h", "/", "h" >>, fid |-> << "a" >>, org |-> << >> ]
ReportTime == "Mon Nov  2 02:00:00 2026"

InitReport ==
    /\ pc = "project"
    /\ session = 1
    /\ server = << ReportServer >>
    /\ fi_dir = FiDirOf(ReportServer)
    /\ \E r \in Responses :
        /\ res = << r >>
        /\ req_results = (REQ_NAME_OFX_PROFILE :> r)
        /\ files = WriteFile(WriteFile(<< >>, HeadersPath, HeadersContent(r)),
                             BodyPath, BodyContent(r))
    /\ profrs = << >>
    /\ fi_list = << >>
    /\ stdout = << DebugLine(ReportServer), PROG \o ": version " \o VERSION, "",
                   StartLine(ReportTime), "  Sending <PROFRQ>", EndLine(ReportTime), "" >>
    /\ sent = << REQ_NAME_OFX_PROFILE >>
    /\ exc = ""
    /\ dirs = Makedirs(Makedirs(Makedirs({ }, DATA_DIR), FIS_DIR), fi_dir)
    /\ files0 = << >>

ProjectAny == ProjectFrom(ProfileResponses)

NextReport ==
    \/ ProjectAny
    \/ ReportCliFi
    \/ ReportCliServer

SpecReport == InitReport /\ [][NextReport]_vars

(***************************************************************************)
(* Observations used by the properties.                                    *)
(***************************************************************************)
\* << content >> of the file at p, << >> when there is none
FileAt(fs, p) == IF p \in DOMAIN fs THEN << fs[p] >> ELSE << >>

CacheUntouched ==
    /\ FileAt(files, HeadersPath) = FileAt(files0, HeadersPath)
    /\ FileAt(files, BodyPath) = FileAt(files0, BodyPath)

FiBlockPrinted == "Financial Institution" \in Range(stdout)
ServerBlockPrinted == "OFX Server" \in Range(stdout)
StartPrinted == \E t \in Times : StartLine(t) \in Range(stdout)
EndPrinted == \E t \in Times : EndLine(t) \in Range(stdout)
LayoutEstablished == fi_dir # << >> /\ { DATA_DIR, FIS_DIR, fi_dir } \subseteq dirs
Registered == REQ_NAME_OFX_PROFILE \in DOMAIN req_results
HeadersHold == res # << >> /\ FileAt(files, HeadersPath) = << HeadersContent(res[1]) >>
BodyHolds == res # << >> /\ FileAt(files, BodyPath) = << BodyContent(res[1]) >>

(***************************************************************************)
(* C1: a transport error from send_req ends the session: no '-headers' or  *)
(* '-body' file of the request is written in it, req_results stays empty   *)
(* and neither report block is printed.                                    *)
(***************************************************************************)
C1_TransportErrorIsFatal ==
    exc = "transport" =>
        /\ pc = "aborted"
        /\ CacheUntouched
        /\ req_results = << >>
        /\ ~FiBlockPrinted /\ ~ServerBlockPrinted

\* a second process fails on send_req while the first one's cache files exist
C1_Witness ==
    /\ exc = "transport"
    /\ session = 2
    /\ sent = << REQ_NAME_OFX_PROFILE >>
    /\ HeadersPath \in DOMAIN files /\ BodyPath \in DOMAIN files

(***************************************************************************)
(* C2: when one of the three makedirs of init fails, the session aborts    *)
(* before any network call: send_req is not invoked, no cache file is      *)
(* written, no report is printed.                                          *)
(***************************************************************************)
C2_MakedirsFailureIsFatal ==
    exc = "OSError: makedirs" =>
        /\ pc = "aborted"
        /\ sent = << >>
        /\ files = files0
        /\ req_results = << >>
        /\ ~FiBlockPrinted /\ ~ServerBlockPrinted

\* the third makedirs (the per-identity directory) failed
C2_Witness ==
    /\ exc = "OSError: makedirs"
    /\ FIS_DIR \in dirs
    /\ fi_dir # << >> /\ fi_dir \notin dirs

(***************************************************************************)
(* C3: in every session send_req is called at most once, exactly once when *)
(* the session completes, and only with the profile request name.          *)
(***************************************************************************)
C3_OneProfileRequest ==
    /\ Len(sent) <= 1
    /\ \A i \in 1..Len(sent) : sent[i] = REQ_NAME_OFX_PROFILE
    /\ pc = "done" => Len(sent) = 1
    /\ exc = "transport" => Len(sent) = 1

\* a second session completed having sent its one request
C3_Witness == pc = "done" /\ session = 2 /\ sent = << REQ_NAME_OFX_PROFILE >>

(***************************************************************************)
(* C4: when a session has completed, the '-body' file holds exactly the    *)
(* text of that session's response and the '-headers' file exactly the     *)
(* serialization of its headers, whatever earlier sessions left there.     *)
(***************************************************************************)
C4_CacheHoldsLastResponse ==
    pc = "done" =>
        /\ FileAt(files, BodyPath) = << res[1].text >>
        /\ FileAt(files, HeadersPath) = << JsonDumps(Dict(res[1].headers)) >>

\* the second session replaced the files of a first one that got the other
\* response
C4_Witness ==
    /\ pc = "done"
    /\ session = 2
    /\ res[1].text = << "<", "\r", "\n", ">" >>
    /\ FileAt(files0, BodyPath) = << << "O", "F", "X", "\n" >> >>
    /\ FileAt(files0, HeadersPath)
         = << "{\"Server\": \"nginx\", \"Content-Type\": \"application/x-ofx\"}" >>
    /\ FileAt(files, BodyPath) = << << "<", "\r", "\n", ">" >> >>
    /\ FileAt(files, HeadersPath) = << "{\"Server\": \"b\", \"Date\": \"d\"}" >>

(***************************************************************************)
(* C5: for a URL with a '/' after its scheme, and all fid and org, the     *)
(* path segment '<transformed>-<fid>-<org>' that init derives holds no     *)
(* '/'.                                                                    *)
(***************************************************************************)
UrlHasSlashAfterScheme(u) ==
    /\ Len(u) > Len(Scheme)
    /\ SubSeq(u, 1, Len(Scheme)) = Scheme
    /\ "/" \in Range(SubSeq(u, Len(Scheme) + 1, Len(u)))

C5_SegmentHasNoSlash ==
    (fi_dir # << >> /\ UrlHasSlashAfterScheme(server[1].ofxurl)) =>
        "/" \notin Range(FiDirSegment(fi_dir))

(***************************************************************************)
(* C6: the derived directory is a function of (url, fid, org), and for the *)
(* same url any other (fid, org) pair derives another directory.           *)
(***************************************************************************)
C6_IdentitiesAreSeparated ==
    fi_dir # << >> =>
        /\ fi_dir = FiDirOf(server[1])
        /\ \A f \in StrOver({ "a", "-", "/" }, MaxIdLen), o \in StrOver({ "a", "-", "/" }, MaxIdLen) :
              << f, o >> # << server[1].fid, server[1].org >> =>
                  FiDirOf([ ofxurl |-> server[1].ofxurl, fid |-> f, org |-> o ]) # fi_dir

(***************************************************************************)
(* C7: the combined line of the institution block is                       *)
(* '{city}, {state} {postalcode}' where each of CITY, STATE, POSTALCODE is *)
(* the mapping's value when present and '' when absent, whatever the other *)
(* two are.                                                                *)
(***************************************************************************)
ValueOrEmpty(m, k) == IF k \in DOMAIN m THEN m[k] ELSE ""

C7_CityLineIsPerField ==
    pc = "report_server" =>
        LET m == profrs[1].profile
        IN fi_list[Len(fi_list) - 1] =
              << "", ValueOrEmpty(m, "CITY") \o ", " \o ValueOrEmpty(m, "STATE")
                         \o " " \o ValueOrEmpty(m, "POSTALCODE") >>

(***************************************************************************)
(* C8: the institution block lists one entry for each of FINAME, ADDR1,    *)
(* ADDR2, ADDR3 that is present (labels 'Name', 'Address', '', ''), in     *)
(* that order, none for an absent key, then always the city line and the   *)
(* country line; with FINAME alone that is one labelled entry and the two  *)
(* trailing ones.                                                          *)
(***************************************************************************)
FiKeys == << "FINAME", "ADDR1", "ADDR2", "ADDR3" >>
FiLabels == << "Name", "Address", "", "" >>

C8_InstitutionBlockShape ==
    pc = "report_server" =>
        LET m == profrs[1].profile
            rank(j) == Cardinality({ i \in 1..j : FiKeys[i] \in DOMAIN m })
            n == rank(4)
        IN /\ Len(fi_list) = n + 2
           /\ \A j \in 1..4 :
                FiKeys[j] \in DOMAIN m => fi_list[rank(j)] = << FiLabels[j], m[FiKeys[j]] >>
           /\ fi_list[n + 1][1] = ""
           /\ fi_list[n + 2] = << "", ValueOrEmpty(m, "COUNTRY") >>
           /\ DOMAIN m = { "FINAME" } =>
                fi_list = << << "Name", m["FINAME"] >>, << "", ",  " >>, << "", "" >> >>
           \* header, underline, blank, one line per entry, blank
           /\ \E k \in 0..Len(stdout) :
                /\ Len(stdout) = k + 3 + Len(fi_list) + 1
                /\ stdout[k + 1] = "Financial Institution"
                /\ \A i \in 1..Len(stdout) : stdout[i] = "Financial Institution" => i = k + 1

\* FINAME alone
C8_Witness ==
    /\ pc = "report_server"
    /\ DOMAIN profrs[1].profile = { "FINAME" }
    /\ fi_list = << << "Name", "Acme Bank" >>, << "", ",  " >>, << "", "" >> >>
    /\ SubSeq(stdout, Len(stdout) - 3, Len(stdout))
         = << "Name: Acme Bank", ":     ,  ", ":     ", "" >>

(***************************************************************************)
(* C9: the server block lists signon.FID ('FID'), signon.ORG ('ORG') and   *)
(* profile.OFXURL ('URL') exactly when the key is present, also when its   *)
(* value is '', and in that order.                                         *)
(***************************************************************************)
C9_ServerBlockShape ==
    pc = "done" =>
        LET p == profrs[1]
            present(l) == CASE l = "FID" -> "FID" \in DOMAIN p.signon
                            [] l = "ORG" -> "ORG" \in DOMAIN p.signon
                            [] l = "URL" -> "OFXURL" \in DOMAIN p.profile
            value(l) == CASE l = "FID" -> p.signon["FID"]
                          [] l = "ORG" -> p.signon["ORG"]
                          [] l = "URL" -> p.profile["OFXURL"]
            labels == SelectSeq(<< "FID", "ORG", "URL" >>, present)
        IN /\ Len(fi_list) = Len(labels)
           /\ \A i \in 1..Len(labels) : fi_list[i] = << labels[i], value(labels[i]) >>
           /\ \E k \in 0..Len(stdout) :
                /\ Len(stdout) = k + 3 + Len(labels) + 1
                /\ stdout[k + 1] = "OFX Server"

\* FID present with '', no ORG, OFXURL present
C9_Witness ==
    /\ pc = "done"
    /\ DOMAIN profrs[1].signon = { "FID" }
    /\ profrs[1].signon["FID"] = ""
    /\ "OFXURL" \in DOMAIN profrs[1].profile
    /\ fi_list = << << "FID", "" >>, << "URL", "https://ofx.example.com" >> >>
    /\ SubSeq(stdout, Len(stdout) - 2, Len(stdout))
         = << "FID: ", "URL: https://ofx.example.com", "" >>

(***************************************************************************)
(* C10: the steps of a session come in the fixed order layout, 'Start',    *)
(* request, headers file, body file, registry, 'End', projection, report:  *)
(* each later step has happened only if the one before it has.             *)
(***************************************************************************)
C10_StepsInOrder ==
    /\ StartPrinted => LayoutEstablished
    /\ sent # << >> => StartPrinted
    /\ res # << >> => sent # << >>
    /\ FileAt(files, HeadersPath) # FileAt(files0, HeadersPath) => res # << >>
    /\ FileAt(files, BodyPath) # FileAt(files0, BodyPath) => HeadersHold
    /\ Registered => HeadersHold /\ BodyHolds /\ req_results[REQ_NAME_OFX_PROFILE] = res[1]
    /\ EndPrinted => Registered
    /\ profrs # << >> => EndPrinted
    /\ FiBlockPrinted => profrs # << >>
    /\ ServerBlockPrinted => FiBlockPrinted
    /\ pc = "done" => ServerBlockPrinted

\* a completed session that changed both cache files
C10_Witness ==
    /\ pc = "done"
    /\ session = 2
    /\ FileAt(files0, BodyPath) # << >>
    /\ FileAt(files, BodyPath) # FileAt(files0, BodyPath)
    /\ FileAt(files, HeadersPath) # FileAt(files0, HeadersPath)
    /\ Registered /\ EndPrinted /\ ServerBlockPrinted

====
